---- MODULE Spec2Model ----
(***************************************************************************)
(* Telegraph-Image: functions/upload.js.                                   *)
(*                                                                         *)
(* One inbound request is handled at a time.  An upload request is parsed, *)
(* classified by MIME type, relayed to the messaging API by sendToTelegram *)
(* (photo->document fallback and network retries on one shared counter),   *)
(* its file id extracted, optionally recorded in the KV store, announced   *)
(* by sendFileNotification and answered.  A webhook request answers the    *)
(* "copy link" button by extracting the URL from the message text.         *)
(*                                                                         *)
(* Text the code inspects (file names, MIME types, URLs, the notification  *)
(* message) is a sequence of one-character strings; a character outside    *)
(* ASCII is written as a token such as "U+1F389".                          *)
(***************************************************************************)
EXTENDS Integers, Sequences, FiniteSets, TLC

VARIABLES
    pc,          \* position of the request being handled
    request,     \* the inbound request (content type, form, env, JSON body)
    formData,    \* sendToTelegram's formData argument
    apiEndpoint, \* sendToTelegram's apiEndpoint argument
    retryCount,  \* sendToTelegram's retryCount argument
    result,      \* what sendToTelegram returned to the handler
    fileId,      \* the extracted file id
    fileUrl,     \* "/file/{fileId}.{fileExtension}"
    log,         \* outbound effects of this request, in order
    sendCalls,   \* handler-level invocations of sendToTelegram
    resp         \* the HTTP response of the request

vars == <<pc, request, formData, apiEndpoint, retryCount, result, fileId,
          fileUrl, log, sendCalls, resp>>

---------------------------------------------------------------------------
(* Bounds                                                                  *)

\* longest photo array in a send response
MaxPhotos == 2

---------------------------------------------------------------------------
(* Strings                                                                 *)

Upper == <<"A","B","C","D","E","F","G","H","I","J","K","L","M",
           "N","O","P","Q","R","S","T","U","V","W","X","Y","Z">>
Lower == <<"a","b","c","d","e","f","g","h","i","j","k","l","m",
           "n","o","p","q","r","s","t","u","v","w","x","y","z">>

ToLowerChar(c) ==
    IF \E i \in 1..Len(Upper) : Upper[i] = c
    THEN Lower[CHOOSE i \in 1..Len(Upper) : Upper[i] = c]
    ELSE c

toLowerCase(s) == [i \in 1..Len(s) |-> ToLowerChar(s[i])]

startsWith(s, p) == Len(s) >= Len(p) /\ SubSeq(s, 1, Len(p)) = p

\* p occurs in s at position i
OccursAt(s, p, i) ==
    i >= 1 /\ i + Len(p) - 1 <= Len(s) /\ SubSeq(s, i, i + Len(p) - 1) = p

includes(s, p) == \E i \in 1..(Len(s) + 1) : OccursAt(s, p, i)

\* \s of the regular expression, and what String.prototype.trim removes
IsSpace(c) == c \in {" ", "\n", "\t", "\r"}

RECURSIVE trimStart(_)
trimStart(s) ==
    IF s # <<>> /\ IsSpace(Head(s)) THEN trimStart(Tail(s)) ELSE s

RECURSIVE trimEnd(_)
trimEnd(s) ==
    IF s # <<>> /\ IsSpace(s[Len(s)]) THEN trimEnd(SubSeq(s, 1, Len(s) - 1)) ELSE s

trim(s) == trimEnd(trimStart(s))

\* fileName.split('.').pop(): the part after the last '.', or the whole name
LastDot(s) ==
    IF \E i \in 1..Len(s) : s[i] = "."
    THEN CHOOSE i \in 1..Len(s) : s[i] = "." /\ \A j \in (i+1)..Len(s) : s[j] # "."
    ELSE 0

splitPop(s) == SubSeq(s, LastDot(s) + 1, Len(s))

RECURSIVE Digits(_)
Digits(n) ==
    LET d == <<"0","1","2","3","4","5","6","7","8","9">>[(n % 10) + 1]
    IN  IF n < 10 THEN <<d>> ELSE Digits(n \div 10) \o <<d>>

---------------------------------------------------------------------------
(* Program constants and literals                                          *)

MAX_RETRIES == 2

S_image == <<"i","m","a","g","e","/">>
S_audio == <<"a","u","d","i","o","/">>
S_video == <<"v","i","d","e","o","/">>
S_file  == <<"/","f","i","l","e","/">>
S_http  == <<"h","t","t","p",":","/","/">>
S_https == <<"h","t","t","p","s",":","/","/">>
\* the backquote character, which a TLA+ string cannot hold
BQ == "U+0060"

Fence   == <<BQ, BQ, BQ>>

S_multipart == <<"m","u","l","t","i","p","a","r","t","/","f","o","r","m","-","d","a","t","a">>
S_json      == <<"a","p","p","l","i","c","a","t","i","o","n","/","j","s","o","n">>

\* "copy_link": the fixed callback token of the inline button
COPY_LINK == "copy_link"

---------------------------------------------------------------------------
(* handleFileUpload: classification and URL                                *)

\* mutant: the prefix tests done with includes
Classify_Includes(type) ==
    IF includes(type, S_image) THEN "photo"
    ELSE IF includes(type, S_audio) THEN "audio"
    ELSE IF includes(type, S_video) THEN "video"
    ELSE "document"

\* the if / else-if chain on uploadFile.type: the form field and endpoint
Classify(type) ==
    IF startsWith(type, S_image) THEN "photo"
    ELSE IF startsWith(type, S_audio) THEN "audio"
    ELSE IF startsWith(type, S_video) THEN "video"
    ELSE "document"

Endpoint(kind) ==
    CASE kind = "photo" -> "sendPhoto"
      [] kind = "audio" -> "sendAudio"
      [] kind = "video" -> "sendVideo"
      [] OTHER          -> "sendDocument"

fileExtensionOf(fileName) == toLowerCase(splitPop(fileName))

\* `/file/${fileId}.${fileExtension}`
FileUrlOf(id, ext) == S_file \o id \o <<".">> \o ext

\* mutant: the record keyed by the file id alone
StoreKeyOf_NoExtension(id, ext) == id

\* `${fileId}.${fileExtension}`: the key of the KV record
StoreKeyOf(id, ext) == id \o <<".">> \o ext

\* `${new URL(request.url).origin}${fileUrl}`
FullUrlOf(origin, url) == origin \o url

---------------------------------------------------------------------------
(* getFileId                                                               *)

\* file_size is optional in a photo entry
NoSize == -1

\* mutant: the comparison done with >=
SizeGreaterOrEqual(p, c) ==
    p.file_size # NoSize /\ c.file_size # NoSize /\ p.file_size >= c.file_size

\* prev.file_size > current.file_size; a comparison with undefined is false
SizeGreater(p, c) ==
    p.file_size # NoSize /\ c.file_size # NoSize /\ p.file_size > c.file_size

\* the callback of result.photo.reduce
ReduceStep(prev, current) == IF SizeGreater(prev, current) THEN prev ELSE current

\* Array.prototype.reduce without an initial value, on a non-empty array
RECURSIVE Reduce(_)
Reduce(arr) ==
    IF Len(arr) = 1 THEN arr[1]
    ELSE ReduceStep(Reduce(SubSeq(arr, 1, Len(arr) - 1)), arr[Len(arr)])

\* a JS value is a file id the handler accepts iff it is truthy
Null == [t |-> "null", v |-> <<>>]
Id(v) == [t |-> "id", v |-> v]
Threw(msg) == [t |-> "throw", v |-> msg]

getFileId(response) ==
    IF ~response.ok \/ ~response.hasResult THEN Null
    ELSE IF response.photo.has THEN
        IF response.photo.v = <<>>
        THEN Threw(<<"TypeError: Reduce of empty array with no initial value">>)
        ELSE Id(Reduce(response.photo.v).file_id)
    ELSE IF response.document.has THEN Id(response.document.v)
    ELSE IF response.video.has THEN Id(response.video.v)
    ELSE IF response.audio.has THEN Id(response.audio.v)
    ELSE Null

---------------------------------------------------------------------------
(* sendToTelegram: the two retry decisions                                 *)

\* mutant: the fallback not gated by the retry counter
ShouldFallback_NoBound(rc, endpoint) == endpoint = "sendPhoto"

\* retryCount < MAX_RETRIES && apiEndpoint === 'sendPhoto'
ShouldFallback(rc, endpoint) == rc < MAX_RETRIES /\ endpoint = "sendPhoto"

\* mutant: the bound off by one
ShouldRetry_OffByOne(rc) == rc <= MAX_RETRIES

\* retryCount < MAX_RETRIES, in the catch block
ShouldRetry(rc) == rc < MAX_RETRIES

\* mutant: the wait computed from retryCount, not retryCount + 1
BackoffMs_FromZero(rc) == 1000 * rc

\* 1000 * (retryCount + 1)
BackoffMs(rc) == 1000 * (rc + 1)

\* newFormData: chat_id copied, formData.get('photo') appended as 'document'
FallbackForm(fd) ==
    [chat_id |-> fd.chat_id, field |-> "document", file |-> fd.file]

\* mutant: the description of the response not used
FailureMessage_Generic(body) == "Upload to Telegram failed"

\* responseData.description || 'Upload to Telegram failed'
FailureMessage(body) ==
    IF body.description # "" THEN body.description ELSE "Upload to Telegram failed"

---------------------------------------------------------------------------
(* sendFileNotification                                                    *)

\* mutant: the flag compared with '1'
NotificationDisabled_One(env) == env.DISABLE_NOTIFICATION = "1"

\* env.DISABLE_NOTIFICATION === 'true'
NotificationDisabled(env) == env.DISABLE_NOTIFICATION = "true"

\* env.NOTIFICATION_CHAT_ID || env.TG_Chat_ID
notificationChatId(env) ==
    IF env.NOTIFICATION_CHAT_ID # "" THEN env.NOTIFICATION_CHAT_ID ELSE env.TG_Chat_ID

\* (n / d).toFixed(1) for a power of two d: one decimal, half rounded up
toFixed1(n, d) ==
    LET tenths == (20 * n + d) \div (2 * d)
    IN  Digits(tenths \div 10) \o <<".">> \o Digits(tenths % 10)

formatFileSize(bytes) ==
    IF bytes < 1024 THEN Digits(bytes) \o <<" ", "B">>
    ELSE IF bytes < 1024 * 1024 THEN toFixed1(bytes, 1024) \o <<" ", "K", "B">>
    ELSE IF bytes < 1024 * 1024 * 1024
         THEN toFixed1(bytes, 1024 * 1024) \o <<" ", "M", "B">>
    ELSE toFixed1(bytes, 1024 * 1024 * 1024) \o <<" ", "G", "B">>

getFileIcon(type) ==
    IF startsWith(type, S_image) THEN <<"U+1F5BC", "U+FE0F">>
    ELSE IF startsWith(type, S_video) THEN <<"U+1F3AC">>
    ELSE IF startsWith(type, S_audio) THEN <<"U+1F3B5">>
    ELSE IF includes(type, <<"p","d","f">>) THEN <<"U+1F4C4">>
    ELSE IF \/ includes(type, <<"z","i","p">>)
            \/ includes(type, <<"r","a","r">>)
            \/ includes(type, <<"7","z">>) THEN <<"U+1F4E6">>
    ELSE <<"U+1F4CE">>

\* the template literal of sendFileNotification, then .trim()
Message(info) ==
    trim(
        <<"\n", "U+1F389", " ", "*", "*", "{upload succeeded!}", "*", "*", "\n", "\n">>
        \o getFileIcon(info.fileType)
        \o <<" ", "*", "*", "{file name:}", "*", "*", " ", BQ>> \o info.fileName
        \o <<BQ, "\n", "U+1F4CF", " ", "*", "*", "{size:}", "*", "*", " ">>
        \o formatFileSize(info.fileSize)
        \o <<"\n", "U+1F194", " ", "*", "*", "{file ID:}", "*", "*", " ", BQ>>
        \o info.fileId
        \o <<BQ, "\n", "U+1F517", " ", "*", "*", "{access link:}", "*", "*", " ",
             "[", "{click to open}", "]", "(">> \o info.fileUrl
        \o <<")", "\n", "\n">> \o Fence \o <<"\n">>
        \o info.fileUrl
        \o <<"\n">> \o Fence \o <<"\n", "\n", "_", "{uploaded via}", " ",
             "T","e","l","e","g","r","a","p","h","-","I","m","a","g","e", " ",
             "{upload}", "_", "\n", " ", " ", " ", " ">>)

---------------------------------------------------------------------------
(* handleTelegramWebhook: the pattern  FENCE \n (https?:\/\/[^\s]+) \n FENCE *)

\* first position at or after j that holds a whitespace character, or the end
RECURSIVE RunEnd(_, _)
RunEnd(text, j) ==
    IF j > Len(text) \/ IsSpace(text[j]) THEN j ELSE RunEnd(text, j + 1)

\* mutant: the pattern written for https only
SchemeLen_HttpsOnly(text, a) ==
    IF OccursAt(text, S_https, a) THEN Len(S_https) ELSE 0

\* the length of the scheme https?:\/\/ at position a, 0 when it is not there
SchemeLen(text, a) ==
    IF OccursAt(text, S_https, a) THEN Len(S_https)
    ELSE IF OccursAt(text, S_http, a) THEN Len(S_http)
    ELSE 0

\* the pattern matches with its opening fence at position i
MatchAt(text, i) ==
    LET a == i + Len(Fence) + 1
        b == a + SchemeLen(text, a)
        e == RunEnd(text, b)
    IN  /\ OccursAt(text, Fence \o <<"\n">>, i)
        /\ SchemeLen(text, a) > 0
        /\ e > b
        /\ OccursAt(text, <<"\n">> \o Fence, e)

\* capture group 1 of the match at i
GroupAt(text, i) ==
    LET a == i + Len(Fence) + 1
    IN  SubSeq(text, a, RunEnd(text, a + SchemeLen(text, a)) - 1)

\* messageText.match(urlRegex): the leftmost match
urlRegexMatch(text) ==
    IF \E i \in 1..Len(text) : MatchAt(text, i)
    THEN LET i == CHOOSE k \in 1..Len(text) :
                      MatchAt(text, k) /\ \A j \in 1..(k - 1) : ~MatchAt(text, j)
         IN  [matched |-> TRUE, group |-> GroupAt(text, i)]
    ELSE [matched |-> FALSE, group |-> <<>>]

\* the pop-up text of answerCallbackQuery
alertTextOf(messageText) ==
    LET m == urlRegexMatch(messageText)
    IN  IF m.matched /\ m.group # <<>>
        THEN <<"{link ready, paste it}", "\n", "\n">> \o m.group
        ELSE <<"{link not found}">>

---------------------------------------------------------------------------
(* Inputs: inbound requests and the outcomes of outbound calls             *)

Origin == S_https \o <<"h">>

File(name, type, size, content) ==
    [kind |-> "file", text |-> "", name |-> name, type |-> type,
     size |-> size, content |-> content]

\* formData.get('file') of a form without the field, or with a text field
NoFile == [kind |-> "absent", text |-> "", name |-> <<>>, type |-> <<>>,
           size |-> 0, content |-> ""]
TextField(t) == [NoFile EXCEPT !.kind = "text", !.text = t]

Files ==
    { File(<<"a",".","p","n","g">>, S_image \o <<"p","n","g">>, 10, "bytes1"),
      File(<<"B",".","T","A","R",".","G","Z">>, <<"a","/","z","i","p">>, 1536, "bytes2"),
      File(<<"n","o","e","x","t">>, S_audio \o <<"m","p","3">>, 0, "bytes3"),
      File(<<"v",".","m","p","4">>, S_video \o <<"m","p","4">>, 1048576, "bytes4"),
      File(<<"x",".","p"," ","g">>, S_image \o <<"g","i","f">>, 1024, "bytes5"),
      File(Fence \o <<"\n">> \o S_http \o <<"e","\n">> \o Fence \o <<".","j">>,
           <<>>, 5, "bytes6") }

FormFiles == Files \cup {NoFile, TextField(""), TextField("x")}

Envs ==
    [TG_Chat_ID : {"chat1"},
     NOTIFICATION_CHAT_ID : {"", "chat2"},
     DISABLE_NOTIFICATION : {"", "true", "false"},
     img_url : BOOLEAN]

DefaultEnv ==
    [TG_Chat_ID |-> "chat1", NOTIFICATION_CHAT_ID |-> "",
     DISABLE_NOTIFICATION |-> "", img_url |-> FALSE]

\* a JSON value: absent (has = FALSE) or present with value v
Absent == [has |-> FALSE, v |-> <<>>]
Present(v) == [has |-> TRUE, v |-> v]

PhotoSize(id, size) == [file_id |-> id, file_size |-> size]

PhotoEntries ==
    {PhotoSize(id, size) : id \in {<<"a">>, <<"b">>}, size \in {NoSize, 100, 200}}

PhotoArrays(n) == UNION {[1..k -> PhotoEntries] : k \in 0..n}

\* the parsed JSON body of a response of the messaging API
Body(ok, hasResult, photo, document, video, audio, description) ==
    [ok |-> ok, hasResult |-> hasResult, photo |-> photo, document |-> document,
     video |-> video, audio |-> audio, description |-> description]

NoBody == Body(FALSE, FALSE, Absent, Absent, Absent, Absent, "")

ResultBody(photo, document, video, audio) ==
    Body(TRUE, TRUE, photo, document, video, audio, "")

\* bodies of 2xx responses with the given photo arrays
SuccessBodies(arrays) ==
    {ResultBody(Present(a), Absent, Absent, Absent) : a \in arrays}
    \cup {ResultBody(Present(a), Present(<<"d">>), Absent, Absent) : a \in arrays}
    \cup { ResultBody(Absent, Present(<<"d">>), Absent, Absent),
           ResultBody(Absent, Present(<<"d">>), Present(<<"v">>), Present(<<"u">>)),
           ResultBody(Absent, Present(<<>>), Absent, Absent),
           ResultBody(Absent, Absent, Present(<<"v">>), Present(<<"u">>)),
           ResultBody(Absent, Absent, Absent, Present(<<"u">>)),
           ResultBody(Absent, Absent, Absent, Absent),
           Body(TRUE, FALSE, Absent, Absent, Absent, Absent, ""),
           Body(FALSE, TRUE, Absent, Present(<<"d">>), Absent, Absent, "") }

HandlerPhotoArrays ==
    { <<>>,
      <<PhotoSize(<<"a">>, 100)>>,
      <<PhotoSize(<<"a">>, 100), PhotoSize(<<"b">>, 200)>>,
      <<PhotoSize(<<"a">>, 100), PhotoSize(<<"b">>, 100)>>,
      <<PhotoSize(<<"b">>, 200), PhotoSize(<<"a">>, 100)>> }

ErrorBodies ==
    { Body(FALSE, FALSE, Absent, Absent, Absent, Absent, "Bad Request: PHOTO_INVALID"),
      Body(FALSE, FALSE, Absent, Absent, Absent, Absent, "") }

\* what one fetch can do: throw, or answer with a status and a body that
\* response.json() parses or not
Outcome(kind, ok, parses, body) ==
    [kind |-> kind, ok |-> ok, parses |-> parses, body |-> body]

FetchThrows == Outcome("throw", FALSE, FALSE, NoBody)

SendOutcomes ==
    {FetchThrows}
    \cup {Outcome("resp", TRUE, TRUE, b) : b \in SuccessBodies(HandlerPhotoArrays)}
    \cup {Outcome("resp", FALSE, TRUE, b) : b \in ErrorBodies}
    \cup {Outcome("resp", ok, FALSE, NoBody) : ok \in BOOLEAN}

\* outcomes of sendMessage and answerCallbackQuery: the body is only logged
CallOutcomes ==
    {FetchThrows}
    \cup {Outcome("resp", ok, parses, NoBody) : ok, parses \in BOOLEAN}

OutcomeClass(o) ==
    IF o.kind = "throw" THEN "throw"
    ELSE IF o.ok THEN (IF o.parses THEN "2xx" ELSE "2xx-unparsable")
    ELSE (IF o.parses THEN "non2xx" ELSE "non2xx-unparsable")

\* the Telegram update of a webhook request
Update(json, hasCallback, data, hasMessage, hasText, text) ==
    [json |-> json, hasCallback |-> hasCallback, data |-> data,
     hasMessage |-> hasMessage, hasText |-> hasText, text |-> text]

NoUpdate == Update("object", FALSE, "", FALSE, FALSE, <<>>)

\* what sendFileNotification is called with for a file, a file id and an origin
FileInfo(f, id, origin) ==
    [fileName |-> f.name, fileSize |-> f.size,
     fileUrl |-> FullUrlOf(origin, FileUrlOf(id, fileExtensionOf(f.name))),
     fileType |-> f.type, fileId |-> id]

FileInfos == {FileInfo(f, id, o) : f \in Files, id \in {<<"a">>, <<"d">>},
                                   o \in {Origin, S_http \o <<"h">>}}

\* texts of the message a callback query refers to
MessageTexts ==
    {Message(i) : i \in FileInfos}
    \cup { <<"h","i">>,
           Fence \o <<"\n">> \o S_file \o <<"a",".","p","n","g","\n">> \o Fence }

Updates ==
    { Update("unparsable", FALSE, "", FALSE, FALSE, <<>>),
      Update("null", FALSE, "", FALSE, FALSE, <<>>),
      NoUpdate,
      Update("object", TRUE, "", TRUE, TRUE, <<"h","i">>),
      Update("object", TRUE, "copy_abc", TRUE, TRUE, <<"h","i">>),
      Update("object", TRUE, COPY_LINK, FALSE, FALSE, <<>>),
      Update("object", TRUE, COPY_LINK, TRUE, FALSE, <<>>) }
    \cup {Update("object", TRUE, COPY_LINK, TRUE, TRUE, t) : t \in MessageTexts}

Form(parse, middleware, file) ==
    [parse |-> parse, middleware |-> middleware, file |-> file]

NoForm == Form("ok", "ok", NoFile)

Request(ctype, env, form, update) ==
    [ctype |-> ctype, origin |-> Origin, env |-> env, form |-> form,
     update |-> update]

UploadRequests ==
    {Request(S_multipart \o <<";"," ","b","=","x">>, e, Form("ok", "ok", f), NoUpdate) :
        e \in Envs, f \in FormFiles}
    \cup {Request(S_multipart, DefaultEnv, Form(p, m, NoFile), NoUpdate) :
        p, m \in {"ok", "throws"}}

WebhookRequests ==
    {Request(S_json, DefaultEnv, NoForm, u) : u \in Updates}

Requests ==
    UploadRequests \cup WebhookRequests
    \cup {Request(t, DefaultEnv, NoForm, NoUpdate) : t \in {<<>>, <<"t","e","x","t">>}}

---------------------------------------------------------------------------
(* State                                                                   *)

NoFormData == [chat_id |-> "", field |-> "", file |-> NoFile]

NoResult == [returned |-> FALSE, success |-> FALSE, data |-> NoBody, error |-> ""]
Success(data) == [returned |-> TRUE, success |-> TRUE, data |-> data, error |-> ""]
Failure(msg) == [returned |-> TRUE, success |-> FALSE, data |-> NoBody, error |-> msg]

\* new Response(...): status and body
NoResponse == [status |-> 0, kind |-> "none", text |-> "", src |-> <<>>]
\* mutant: the status left out of the error response
ErrorResponse_DefaultStatus(msg) ==
    [status |-> 200, kind |-> "error", text |-> msg, src |-> <<>>]

\* JSON.stringify({ error: error.message }), status 500
ErrorResponse(msg) == [status |-> 500, kind |-> "error", text |-> msg, src |-> <<>>]
\* JSON.stringify([{ 'src': fileUrl }]), status 200
SrcResponse(url) == [status |-> 200, kind |-> "src", text |-> "", src |-> url]
\* a plain-text response
TextResponse(status, text) ==
    [status |-> status, kind |-> "text", text |-> text, src |-> <<>>]

Init ==
    /\ pc = "idle"
    /\ request = Request(<<>>, DefaultEnv, NoForm, NoUpdate)
    /\ formData = NoFormData
    /\ apiEndpoint = ""
    /\ retryCount = 0
    /\ result = NoResult
    /\ fileId = <<>>
    /\ fileUrl = <<>>
    /\ log = <<>>
    /\ sendCalls = 0
    /\ resp = NoResponse

\* the platform runtime invokes onRequestPost with a request
Receive ==
    /\ pc = "idle"
    /\ request' \in Requests
    /\ pc' = "received"
    /\ UNCHANGED <<formData, apiEndpoint, retryCount, result, fileId, fileUrl,
                   log, sendCalls, resp>>

\* the response has been delivered: nothing of the request is kept
Complete ==
    /\ pc = "done"
    /\ pc' = "idle"
    /\ request' = Request(<<>>, DefaultEnv, NoForm, NoUpdate)
    /\ formData' = NoFormData
    /\ apiEndpoint' = ""
    /\ retryCount' = 0
    /\ result' = NoResult
    /\ fileId' = <<>>
    /\ fileUrl' = <<>>
    /\ log' = <<>>
    /\ sendCalls' = 0
    /\ resp' = NoResponse

---------------------------------------------------------------------------
(* onRequestPost: the router                                               *)

Route(contentType) ==
    IF includes(contentType, S_multipart) THEN "upload"
    ELSE IF includes(contentType, S_json) THEN "webhook"
    ELSE "unsupported"

UnsupportedRequest ==
    /\ pc = "received"
    /\ Route(request.ctype) = "unsupported"
    /\ resp' = TextResponse(400, "Unsupported request type")
    /\ pc' = "done"
    /\ UNCHANGED <<request, formData, apiEndpoint, retryCount, result, fileId,
                   fileUrl, log, sendCalls>>

---------------------------------------------------------------------------
(* handleFileUpload, up to the call of sendToTelegram                      *)

\* !uploadFile: null (no field) and the empty string are falsy
NoFileUploaded(file) ==
    file.kind = "absent" \/ (file.kind = "text" /\ file.text = "")

\* what is thrown before sendToTelegram is called, "" when nothing is
UploadPreludeError(form) ==
    IF form.parse = "throws" THEN "TypeError: failed to parse body as FormData"
    ELSE IF form.middleware = "throws" THEN "middleware error"
    ELSE IF NoFileUploaded(form.file) THEN "No file uploaded"
    ELSE IF form.file.kind = "text"
         THEN "TypeError: cannot read properties of undefined (reading 'split')"
    ELSE ""

handleFileUpload ==
    /\ pc = "received"
    /\ Route(request.ctype) = "upload"
    /\ LET err  == UploadPreludeError(request.form)
           file == request.form.file
           kind == Classify(file.type)
       IN  IF err # ""
           THEN /\ resp' = ErrorResponse(err)
                /\ pc' = "done"
                /\ UNCHANGED <<formData, apiEndpoint, retryCount, sendCalls>>
           ELSE /\ formData' = [chat_id |-> request.env.TG_Chat_ID,
                                field |-> kind, file |-> file]
                /\ apiEndpoint' = Endpoint(kind)
                /\ retryCount' = 0
                /\ sendCalls' = sendCalls + 1
                /\ pc' = "send"
                /\ UNCHANGED resp
    /\ UNCHANGED <<request, result, fileId, fileUrl, log>>

---------------------------------------------------------------------------
(* sendToTelegram: one invocation, which makes one fetch                   *)

FetchEntry(fd, endpoint, rc, o) ==
    [op |-> "fetch", endpoint |-> endpoint, chat_id |-> fd.chat_id,
     field |-> fd.field, content |-> fd.file.content, retryCount |-> rc,
     outcome |-> OutcomeClass(o), body |-> o.body]

\* fetch or response.json() threw: control is in the catch block
InCatch(o) == o.kind = "throw" \/ ~o.parses

\* mutant: success decided by the body's ok field as well
ReturnsSuccess_BodyOk(o) == o.kind = "resp" /\ o.parses /\ o.ok /\ o.body.ok

\* response.ok with a parsed body: return { success: true, data }
ReturnsSuccess(o) == ~InCatch(o) /\ o.ok

sendToTelegram ==
    /\ pc = "send"
    /\ \E o \in SendOutcomes :
        /\ log' = Append(log, FetchEntry(formData, apiEndpoint, retryCount, o))
        /\ IF InCatch(o)
           THEN IF ShouldRetry(retryCount)
                THEN /\ pc' = "backoff"
                     /\ UNCHANGED <<formData, apiEndpoint, retryCount, result>>
                ELSE /\ result' = Failure("Network error occurred")
                     /\ pc' = "returned"
                     /\ UNCHANGED <<formData, apiEndpoint, retryCount>>
           ELSE IF ReturnsSuccess(o)
                THEN /\ result' = Success(o.body)
                     /\ pc' = "returned"
                     /\ UNCHANGED <<formData, apiEndpoint, retryCount>>
           ELSE IF ShouldFallback(retryCount, apiEndpoint)
                THEN /\ formData' = FallbackForm(formData)
                     /\ apiEndpoint' = "sendDocument"
                     /\ retryCount' = retryCount + 1
                     /\ pc' = "send"
                     /\ UNCHANGED result
                ELSE /\ result' = Failure(FailureMessage(o.body))
                     /\ pc' = "returned"
                     /\ UNCHANGED <<formData, apiEndpoint, retryCount>>
    /\ UNCHANGED <<request, fileId, fileUrl, sendCalls, resp>>

\* the setTimeout of the catch block has fired: the recursive call
Backoff ==
    /\ pc = "backoff"
    /\ log' = Append(log, [op |-> "sleep", ms |-> BackoffMs(retryCount)])
    /\ retryCount' = retryCount + 1
    /\ pc' = "send"
    /\ UNCHANGED <<request, formData, apiEndpoint, result, fileId, fileUrl,
                   sendCalls, resp>>

---------------------------------------------------------------------------
(* handleFileUpload, after sendToTelegram has returned                     *)

\* !fileId: null and the empty string are falsy
MissingFileId(id) == id.t = "null" \/ (id.t = "id" /\ id.v = <<>>)

AfterSend ==
    /\ pc = "returned"
    /\ IF ~result.success
       THEN /\ resp' = ErrorResponse(result.error)
            /\ pc' = "done"
            /\ UNCHANGED <<fileId, fileUrl>>
       ELSE LET id == getFileId(result.data)
            IN  IF id.t = "throw"
                THEN /\ resp' = ErrorResponse(id.v[1])
                     /\ pc' = "done"
                     /\ UNCHANGED <<fileId, fileUrl>>
                ELSE IF MissingFileId(id)
                THEN /\ resp' = ErrorResponse("Failed to get file ID")
                     /\ pc' = "done"
                     /\ UNCHANGED <<fileId, fileUrl>>
                ELSE /\ fileId' = id.v
                     /\ fileUrl' = FileUrlOf(id.v, fileExtensionOf(request.form.file.name))
                     /\ pc' = IF request.env.img_url THEN "put" ELSE "notify"
                     /\ UNCHANGED resp
    /\ UNCHANGED <<request, formData, apiEndpoint, retryCount, result, log, sendCalls>>

\* mutant: a failing put caught and ignored
StoreThrows_Swallowed(o) == FALSE

\* the awaited put is in no try block of its own: its rejection is thrown
\* into the catch of handleFileUpload
StoreThrows(o) == o = "throw"

\* await env.img_url.put(key, "", { metadata })
StorePut ==
    /\ pc = "put"
    /\ \E o \in {"ok", "throw"} :
        /\ log' = Append(log,
              [op |-> "put",
               key |-> StoreKeyOf(fileId, fileExtensionOf(request.form.file.name)),
               fileName |-> request.form.file.name,
               fileSize |-> request.form.file.size,
               fileType |-> request.form.file.type,
               outcome |-> o])
        /\ IF StoreThrows(o)
           THEN /\ resp' = ErrorResponse("KV put failed")
                /\ pc' = "done"
           ELSE /\ pc' = "notify"
                /\ UNCHANGED resp
    /\ UNCHANGED <<request, formData, apiEndpoint, retryCount, result, fileId,
                   fileUrl, sendCalls>>

\* mutant: the fetch of sendFileNotification outside try / catch
NotificationThrows_NoCatch(o) == o.kind = "throw" \/ ~o.parses

\* what sendFileNotification throws to its caller: fetch and response.json()
\* run inside try / catch, which only logs
NotificationThrows(o) == FALSE

\* await sendFileNotification(env, {...}), then the 200 response
sendFileNotification ==
    /\ pc = "notify"
    /\ LET info == [fileName |-> request.form.file.name,
                    fileSize |-> request.form.file.size,
                    fileUrl  |-> FullUrlOf(request.origin, fileUrl),
                    fileType |-> request.form.file.type,
                    fileId   |-> fileId]
       IN  IF NotificationDisabled(request.env)
           THEN /\ resp' = SrcResponse(fileUrl)
                /\ UNCHANGED log
           ELSE \E o \in CallOutcomes :
                /\ log' = Append(log,
                      [op |-> "sendMessage",
                       chat_id |-> notificationChatId(request.env),
                       text |-> Message(info),
                       url |-> info.fileUrl,
                       callback_data |-> COPY_LINK,
                       outcome |-> OutcomeClass(o)])
                /\ resp' = IF NotificationThrows(o)
                           THEN ErrorResponse("notification failed")
                           ELSE SrcResponse(fileUrl)
    /\ pc' = "done"
    /\ UNCHANGED <<request, formData, apiEndpoint, retryCount, result, fileId,
                   fileUrl, sendCalls>>

---------------------------------------------------------------------------
(* handleTelegramWebhook                                                   *)

\* update.callback_query with callbackData === 'copy_link'
IsCopyLink(u) == u.json = "object" /\ u.hasCallback /\ u.data = COPY_LINK

\* what throws inside the try block before any fetch: request.json() on a
\* body that is not JSON, a property read on null or undefined
WebhookThrows(u) ==
    \/ u.json = "unparsable"
    \/ u.json = "null"
    \/ IsCopyLink(u) /\ ~u.hasMessage
    \/ IsCopyLink(u) /\ u.hasMessage /\ ~u.hasText

\* mutant: the response of answerCallbackQuery checked with response.ok
StatusAfterAnswer_ChecksOk(o) == IF o.kind = "throw" \/ ~o.ok THEN 500 ELSE 200

\* the status after the awaited fetch of answerCallbackQuery: a thrown fetch
\* reaches the catch block, a response is not inspected
StatusAfterAnswer(o) == IF o.kind = "throw" THEN 500 ELSE 200

WebhookResponse(status) ==
    IF status = 200 THEN TextResponse(200, "OK")
    ELSE TextResponse(500, "Error handling webhook")

handleTelegramWebhook ==
    /\ pc = "received"
    /\ Route(request.ctype) = "webhook"
    /\ LET u == request.update
       IN  IF WebhookThrows(u)
           THEN /\ resp' = WebhookResponse(500)
                /\ UNCHANGED log
           ELSE IF IsCopyLink(u)
           THEN \E o \in CallOutcomes :
                /\ log' = Append(log,
                      [op |-> "answerCallbackQuery",
                       text |-> alertTextOf(u.text),
                       show_alert |-> TRUE,
                       outcome |-> OutcomeClass(o)])
                /\ resp' = WebhookResponse(StatusAfterAnswer(o))
           ELSE /\ resp' = WebhookResponse(200)
                /\ UNCHANGED log
    /\ pc' = "done"
    /\ UNCHANGED <<request, formData, apiEndpoint, retryCount, result, fileId,
                   fileUrl, sendCalls>>

---------------------------------------------------------------------------
(* Specification                                                           *)

Next ==
    \/ Receive
    \/ Complete
    \/ UnsupportedRequest
    \/ handleFileUpload
    \/ sendToTelegram
    \/ Backoff
    \/ AfterSend
    \/ StorePut
    \/ sendFileNotification
    \/ handleTelegramWebhook

Spec == Init /\ [][Next]_vars

---------------------------------------------------------------------------
(* Properties                                                              *)

\* positions of the send* requests in the log
Fetches == {i \in DOMAIN log : log[i].op = "fetch"}

\* positions of the sendMessage requests in the log
Notifications == {i \in DOMAIN log : log[i].op = "sendMessage"}

\* the call chain of sendToTelegram has ended
ChainEnded == result.returned

\* C1: one call of sendToTelegram from the handler makes at most
\* 1 + MAX_RETRIES = 3 send* requests, whatever the attempts' outcomes.
C1_RetryBound == Cardinality(Fetches) <= 3

\* a chain of three requests none of which got a 2xx response, ended in failure
C1_Witness ==
    /\ ChainEnded /\ ~result.success
    /\ Cardinality(Fetches) = 3
    /\ \A i \in Fetches : log[i].outcome \notin {"2xx", "2xx-unparsable"}

\* C2 as stated: every photo attempt that receives a non-2xx response is
\* followed by exactly one more request, a sendDocument with the same chat id
\* and content, wherever in the chain it occurs (here already for the
\* responses whose body parses).
C2_Original ==
    ChainEnded =>
        \A i \in Fetches :
            (log[i].endpoint = "sendPhoto" /\ log[i].outcome = "non2xx")
            => /\ Cardinality({j \in Fetches : j > i}) = 1
               /\ \A j \in Fetches : j > i =>
                    /\ log[j].endpoint = "sendDocument"
                    /\ log[j].field = "document"
                    /\ log[j].chat_id = log[i].chat_id
                    /\ log[j].content = log[i].content

\* C2 amended: a sendPhoto attempt made with retryCount < 2 that receives a
\* non-2xx response with a JSON body is followed immediately (no wait) by a
\* sendDocument request with the same chat id and the identical content, made
\* with retryCount + 1; a chain makes this fallback at most once; a sendPhoto
\* attempt made with retryCount = 2 that receives a non-2xx response has no
\* follow-up and the chain ends in failure.
C2_PhotoFallback ==
    /\ \A i \in Fetches :
        (log[i].endpoint = "sendPhoto" /\ log[i].outcome = "non2xx") =>
            IF log[i].retryCount < 2
            THEN IF i < Len(log)
                 THEN /\ log[i + 1].op = "fetch"
                      /\ log[i + 1].endpoint = "sendDocument"
                      /\ log[i + 1].field = "document"
                      /\ log[i + 1].chat_id = log[i].chat_id
                      /\ log[i + 1].content = log[i].content
                      /\ log[i + 1].retryCount = log[i].retryCount + 1
                 ELSE /\ pc = "send"
                      /\ apiEndpoint = "sendDocument"
                      /\ formData.field = "document"
                      /\ formData.chat_id = log[i].chat_id
                      /\ formData.file.content = log[i].content
                      /\ retryCount = log[i].retryCount + 1
            ELSE /\ \A j \in Fetches : j <= i
                 /\ ChainEnded /\ ~result.success
    /\ Cardinality({i \in Fetches : log[i].endpoint = "sendPhoto"
                                    /\ log[i].outcome = "non2xx"}) <= 1

\* a photo attempt retried after a transport error, then answered non-2xx,
\* then sent again as a document
C2_Witness ==
    /\ Len(log) >= 4
    /\ log[1].op = "fetch" /\ log[1].endpoint = "sendPhoto" /\ log[1].outcome = "throw"
    /\ log[3].op = "fetch" /\ log[3].endpoint = "sendPhoto" /\ log[3].outcome = "non2xx"
    /\ log[4].op = "fetch" /\ log[4].endpoint = "sendDocument"
    /\ log[4].content = log[3].content

\* C3 as stated: a 2xx response at any attempt ends the chain with Success
\* and no further send* request.
C3_Original ==
    \A i \in Fetches :
        log[i].outcome \in {"2xx", "2xx-unparsable"} =>
            /\ \A j \in DOMAIN log : (j > i => log[j].op \notin {"fetch", "sleep"})
            /\ pc \notin {"send", "backoff"}
            /\ result.success

\* C3 amended: a 2xx response whose body parses as JSON, at any attempt, makes
\* sendToTelegram return Success carrying that parsed body, and no further
\* send* request or wait is made in that chain.
C3_SuccessStops ==
    \A i \in Fetches :
        log[i].outcome = "2xx" =>
            /\ \A j \in DOMAIN log : (j > i => log[j].op \notin {"fetch", "sleep"})
            /\ pc \notin {"send", "backoff"}
            /\ result.returned /\ result.success
            /\ result.data = log[i].body

\* success at the third attempt, after a fallback and a network retry
C3_Witness ==
    /\ Cardinality(Fetches) = 3
    /\ \E i \in Fetches : log[i].outcome = "2xx" /\ log[i].retryCount = 2
    /\ \E i \in Fetches : log[i].outcome = "non2xx"
    /\ result.success

\* C4: once the notification call has been made, whatever its outcome, the
\* upload answers 200 with [{src: fileUrl}].
C4_NotificationBestEffort ==
    (pc = "done" /\ Notifications # {}) =>
        /\ resp.status = 200
        /\ resp.kind = "src"
        /\ resp.src = fileUrl
        /\ fileUrl = S_file \o fileId \o <<".">> \o
                        toLowerCase(splitPop(request.form.file.name))

\* the sendMessage fetch threw and the upload answered 200
C4_Witness ==
    /\ pc = "done"
    /\ \E i \in Notifications : log[i].outcome = "throw"
    /\ resp.status = 200

\* the other notification failures: a non-2xx response, an unparsable body
C4_WitnessResponse ==
    /\ pc = "done"
    /\ \E i \in Notifications : log[i].outcome = "non2xx-unparsable"
    /\ resp.status = 200

\* the upload got a file id from a successful send and no store write failed
UploadSucceeded ==
    /\ result.success
    /\ fileId # <<>>
    /\ \A i \in DOMAIN log : log[i].op = "put" => log[i].outcome = "ok"

\* C5: with DISABLE_NOTIFICATION set to 'true' no sendMessage request is made,
\* and an otherwise-successful upload answers 200 with [{src: fileUrl}].
C5_DisableFlag ==
    request.env.DISABLE_NOTIFICATION = "true" =>
        /\ Notifications = {}
        /\ (pc = "done" /\ UploadSucceeded) =>
                (resp.status = 200 /\ resp.kind = "src" /\ resp.src = fileUrl)

\* an upload answered 200 with the flag on, a store write done, and no sendMessage
C5_Witness ==
    /\ request.env.DISABLE_NOTIFICATION = "true"
    /\ pc = "done"
    /\ resp.status = 200
    /\ \E i \in DOMAIN log : log[i].op = "put"
    /\ Notifications = {}

\* the request being handled is a webhook request
IsWebhook == request.ctype = S_json

\* the request being handled is an upload request
IsUpload == Len(request.ctype) >= Len(S_multipart)
            /\ SubSeq(request.ctype, 1, Len(S_multipart)) = S_multipart

\* positions of the answerCallbackQuery requests in the log
Answers == {i \in DOMAIN log : log[i].op = "answerCallbackQuery"}

\* C6 as stated: a webhook request whose body parses as JSON is answered 200
\* whatever its shape and whatever answerCallbackQuery does; 500 only when the
\* body fails to parse.
C6_Original ==
    (pc = "done" /\ IsWebhook) =>
        IF request.update.json = "unparsable"
        THEN resp.status = 500
        ELSE resp.status = 200

\* C6 amended: a webhook request is answered 500 plain text exactly when
\* handling throws: the body is not JSON, the body is JSON null, the callback
\* carries the fixed token but no message or a message without text, or the
\* answerCallbackQuery fetch throws; every other webhook request is answered
\* 200 OK, whatever response answerCallbackQuery gets.
C6_WebhookStatus ==
    (pc = "done" /\ IsWebhook) =>
        LET u == request.update
            fixedToken == u.json = "object" /\ u.hasCallback /\ u.data = "copy_link"
            throws ==
                \/ u.json \in {"unparsable", "null"}
                \/ fixedToken /\ (~u.hasMessage \/ ~u.hasText)
                \/ \E i \in Answers : log[i].outcome = "throw"
        IN  /\ resp.kind = "text"
            /\ throws => (resp.status = 500 /\ resp.text = "Error handling webhook")
            /\ ~throws => (resp.status = 200 /\ resp.text = "OK")
            /\ (fixedToken /\ u.hasMessage /\ u.hasText) <=> Answers # {}

\* the fixed token, a message with text, a non-2xx answer: still 200
C6_Witness ==
    /\ pc = "done" /\ IsWebhook
    /\ \E i \in Answers : log[i].outcome = "non2xx"
    /\ resp.status = 200

\* a body that parses and a thrown answerCallbackQuery fetch: 500
C6_WitnessThrow ==
    /\ pc = "done" /\ IsWebhook
    /\ request.update.json = "object"
    /\ \E i \in Answers : log[i].outcome = "throw"
    /\ resp.status = 500

\* the 500 response of the upload handler: JSON {error: msg}
IsError(msg) == resp.status = 500 /\ resp.kind = "error" /\ resp.text = msg

\* the last send* request of the log
LastFetch == log[CHOOSE i \in Fetches : \A j \in Fetches : j <= i]

\* C9: NoFileUploaded, UploadFailed, NetworkError and MissingFileId each end
\* the upload with status 500 and body {error: message}; the handler calls
\* sendToTelegram at most once per request and not at all without a file.
C9_UploadErrors ==
    /\ sendCalls <= 1
    /\ Cardinality({i \in Fetches : log[i].retryCount = 0}) <= 1
    /\ (IsUpload /\ request.form.file.kind = "absent" /\ pc # "received") =>
            (sendCalls = 0 /\ Fetches = {})
    /\ (pc = "done" /\ IsUpload) =>
        LET form == request.form
            preludeOk == form.parse = "ok" /\ form.middleware = "ok"
            body == result.data
        IN  /\ (preludeOk /\ form.file.kind = "absent") => IsError("No file uploaded")
            /\ (ChainEnded /\ ~result.success) =>
                    /\ IsError(result.error)
                    /\ LastFetch.outcome = "non2xx" =>
                         resp.text = (IF LastFetch.body.description # ""
                                      THEN LastFetch.body.description
                                      ELSE "Upload to Telegram failed")
                    /\ LastFetch.outcome \in {"throw", "2xx-unparsable", "non2xx-unparsable"}
                         => resp.text = "Network error occurred"
            /\ (ChainEnded /\ result.success
                  /\ (~body.ok \/ ~body.hasResult
                        \/ (~body.photo.has /\ ~body.document.has
                              /\ ~body.video.has /\ ~body.audio.has)))
                    => IsError("Failed to get file ID")

\* the four errors, each answered 500
C9_Witness ==
    /\ pc = "done" /\ IsUpload
    /\ ChainEnded /\ ~result.success
    /\ LastFetch.outcome = "non2xx" /\ LastFetch.body.description # ""
    /\ Cardinality(Fetches) = 3
    /\ resp.status = 500

C9_WitnessNoFile ==
    pc = "done" /\ IsUpload /\ resp.status = 500 /\ resp.text = "No file uploaded"

C9_WitnessNetwork ==
    pc = "done" /\ IsUpload /\ resp.status = 500 /\ resp.text = "Network error occurred"

C9_WitnessMissingId ==
    pc = "done" /\ IsUpload /\ resp.status = 500 /\ resp.text = "Failed to get file ID"

---------------------------------------------------------------------------
(* The URL round trip (C8)                                                 *)

HasSpace(str) == \E i \in DOMAIN str : IsSpace(str[i])

HasLineBreak(str) == \E i \in DOMAIN str : str[i] = "\n"

\* the literal block of the message for url
Block(url) == Fence \o <<"\n">> \o url \o <<"\n">> \o Fence

\* C8 as stated: the message built for fileUrl = "/file/{id}.{ext}" embeds a
\* literal block holding exactly that string, and the webhook's pattern
\* recovers that string from the message text.
C8_Original ==
    \A i \in Notifications :
        /\ includes(log[i].text, Block(fileUrl))
        /\ urlRegexMatch(log[i].text).matched
        /\ urlRegexMatch(log[i].text).group = fileUrl

\* C8 amended: the message the upload handler builds embeds a literal block
\* holding exactly the absolute URL origin + fileUrl (not the relative
\* fileUrl); when that URL holds no whitespace and the file name holds no line
\* break, the webhook's pattern recovers the absolute URL unchanged from the
\* message text and the webhook handler puts it in its alert.
C8_UrlRoundTrip ==
    /\ \A i \in Notifications :
        LET url == request.origin \o fileUrl
        IN  /\ includes(log[i].text, Block(url))
            /\ (~HasSpace(url) /\ ~HasLineBreak(request.form.file.name)) =>
                    urlRegexMatch(log[i].text) = [matched |-> TRUE, group |-> url]
    /\ (pc = "done" /\ IsWebhook /\ Answers # {}) =>
        \A info \in FileInfos :
            (/\ request.update.text = Message(info)
             /\ ~HasSpace(info.fileUrl)
             /\ ~HasLineBreak(info.fileName)) =>
                \A a \in Answers :
                    log[a].text = <<"{link ready, paste it}", "\n", "\n">> \o info.fileUrl

\* the webhook answered a callback on a composed message with its URL
C8_Witness ==
    /\ pc = "done" /\ IsWebhook
    /\ \E info \in FileInfos :
        /\ request.update.text = Message(info)
        /\ ~HasSpace(info.fileUrl) /\ ~HasLineBreak(info.fileName)
        /\ \E a \in Answers :
            log[a].text = <<"{link ready, paste it}", "\n", "\n">> \o info.fileUrl

\* the upload handler sent a message from which the pattern recovers the URL
C8_WitnessUpload ==
    \E i \in Notifications :
        urlRegexMatch(log[i].text) =
            [matched |-> TRUE, group |-> request.origin \o fileUrl]

---------------------------------------------------------------------------
(* getFileId on every photo array up to MaxPhotos entries (C7)             *)

SampleFile == File(<<"a",".","p","n","g">>, S_image \o <<"p","n","g">>, 10, "bytes1")

SampleRequest ==
    Request(S_multipart, DefaultEnv, Form("ok", "ok", SampleFile), NoUpdate)

\* handleFileUpload right after sendToTelegram returned Success(body) from
\* its first attempt
InitFileId ==
    \E b \in SuccessBodies(PhotoArrays(MaxPhotos)) :
        /\ pc = "returned"
        /\ request = SampleRequest
        /\ formData = [chat_id |-> "chat1", field |-> "photo", file |-> SampleFile]
        /\ apiEndpoint = "sendPhoto"
        /\ retryCount = 0
        /\ result = Success(b)
        /\ fileId = <<>>
        /\ fileUrl = <<>>
        /\ log = <<FetchEntry([chat_id |-> "chat1", field |-> "photo", file |-> SampleFile],
                              "sendPhoto", 0, Outcome("resp", TRUE, TRUE, b))>>
        /\ sendCalls = 1
        /\ resp = NoResponse

NextFileId == AfterSend

SpecFileId == InitFileId /\ [][NextFileId]_vars

\* the photo array of the successful response, when every entry has a size
SizedPhotos ==
    /\ result.success /\ result.data.ok /\ result.data.hasResult
    /\ result.data.photo.has
    /\ result.data.photo.v # <<>>
    /\ \A i \in DOMAIN result.data.photo.v : result.data.photo.v[i].file_size >= 0

IsMax(arr, i) == \A j \in DOMAIN arr : arr[j].file_size <= arr[i].file_size

\* the handler has run getFileId on the response
Extracted == pc \in {"put", "notify", "done"} /\ ChainEnded

\* C7 as stated: the file id is that of the earliest entry of maximum size.
C7_Original ==
    (Extracted /\ SizedPhotos) =>
        LET arr == result.data.photo.v
            first == CHOOSE i \in DOMAIN arr :
                        IsMax(arr, i) /\ \A j \in DOMAIN arr : IsMax(arr, j) => i <= j
        IN  fileId = arr[first].file_id

\* C7 amended: for a non-empty photo array whose entries all have a size, the
\* file id is that of an entry of maximum size, and of the one that appears
\* latest in the array when several share the maximum (last-seen wins).
C7_TieBreak ==
    (Extracted /\ SizedPhotos) =>
        LET arr == result.data.photo.v
            last == CHOOSE i \in DOMAIN arr :
                        IsMax(arr, i) /\ \A j \in DOMAIN arr : IsMax(arr, j) => j <= i
        IN  /\ fileId = arr[last].file_id
            /\ resp.status # 500

\* two entries share the maximum, have different ids, and the later one won
C7_Witness ==
    /\ Extracted /\ SizedPhotos
    /\ LET arr == result.data.photo.v
       IN  /\ Len(arr) >= 2
           /\ IsMax(arr, 1) /\ IsMax(arr, Len(arr))
           /\ arr[1].file_id # arr[Len(arr)].file_id
           /\ fileId = arr[Len(arr)].file_id

---------------------------------------------------------------------------
(* Classification of every MIME type of a family of types (C10)            *)

TypePrefixes ==
    { <<>>, S_image, S_audio, S_video,
      <<"i","m","a","g","e">>, <<"I","m","a","g","e","/">>,
      <<"x","-">> \o S_video, <<"t","e","x","t","/">> }

TypeSuffixes ==
    { <<>>, <<"p","n","g">>, <<"/">>, S_image, S_audio, S_video,
      <<"a","u","d","i","o">>, <<"x","/","v","i","d","e","o","/">> }

MimeTypes == {p \o x : p \in TypePrefixes, x \in TypeSuffixes}

\* onRequestPost has been invoked with an upload of a file of type t
InitClassify ==
    \E t \in MimeTypes :
        /\ pc = "received"
        /\ request = Request(S_multipart, DefaultEnv,
                             Form("ok", "ok", [SampleFile EXCEPT !.type = t]), NoUpdate)
        /\ formData = NoFormData
        /\ apiEndpoint = ""
        /\ retryCount = 0
        /\ result = NoResult
        /\ fileId = <<>>
        /\ fileUrl = <<>>
        /\ log = <<>>
        /\ sendCalls = 0
        /\ resp = NoResponse

NextClassify == handleFileUpload

SpecClassify == InitClassify /\ [][NextClassify]_vars

\* t begins with the six characters of p
Begins(t, p) == Len(t) >= 6 /\ \A i \in 1..6 : t[i] = p[i]

\* C10: the first attempt uses photo for a type beginning image/, audio for
\* audio/, video for video/ and document for every other type; one kind is
\* chosen for every type and no type ends the request with an error.
C10_Classification ==
    (pc # "received") =>
        LET t == request.form.file.type
            image == Begins(t, <<"i","m","a","g","e","/">>)
            audio == Begins(t, <<"a","u","d","i","o","/">>)
            video == Begins(t, <<"v","i","d","e","o","/">>)
        IN  /\ pc = "send" /\ resp = NoResponse /\ retryCount = 0
            /\ formData.file = request.form.file
            /\ image => (formData.field = "photo" /\ apiEndpoint = "sendPhoto")
            /\ audio => (formData.field = "audio" /\ apiEndpoint = "sendAudio")
            /\ video => (formData.field = "video" /\ apiEndpoint = "sendVideo")
            /\ (~image /\ ~audio /\ ~video) =>
                    (formData.field = "document" /\ apiEndpoint = "sendDocument")

\* a type that holds image/ but does not begin with it goes as a document
C10_Witness ==
    /\ pc = "send"
    /\ request.form.file.type = <<"t","e","x","t","/">> \o S_image
    /\ apiEndpoint = "sendDocument"

C10_WitnessPhoto ==
    /\ pc = "send"
    /\ request.form.file.type = S_image \o <<"p","n","g">>
    /\ apiEndpoint = "sendPhoto"

---------------------------------------------------------------------------
(* The metadata store (C11)                                                *)

\* positions of the store writes in the log
Puts == {i \in DOMAIN log : log[i].op = "put"}

\* C11: a request writes to the store at most once, and once it is past the
\* write exactly once, under the key "{fileId}.{fileExtension}" of the
\* returned src "/file/{fileId}.{fileExtension}", when a store is configured
\* and the send succeeded with a file id; it writes nothing when no store is
\* configured, the file field is absent, the send failed or no file id was
\* extracted; a put is the only store operation it ever makes.
C11_FileRecord ==
    /\ Cardinality(Puts) <= 1
    /\ \A i \in DOMAIN log :
            log[i].op \in {"fetch", "sleep", "put", "sendMessage", "answerCallbackQuery"}
    /\ \A i \in Puts :
        /\ IsUpload /\ request.env.img_url
        /\ request.form.file.kind = "file"
        /\ result.returned /\ result.success
        /\ fileId # <<>>
        /\ log[i].key = fileId \o <<".">> \o toLowerCase(splitPop(request.form.file.name))
        /\ fileUrl = <<"/","f","i","l","e","/">> \o log[i].key
        /\ log[i].fileName = request.form.file.name
    /\ (IsUpload /\ request.env.img_url /\ result.success /\ fileId # <<>>
            /\ pc \in {"notify", "done"}) => Cardinality(Puts) = 1
    /\ (pc = "done" /\ resp.status = 200 /\ resp.kind = "src" /\ Puts # {}) =>
            \A i \in Puts : resp.src = <<"/","f","i","l","e","/">> \o log[i].key
    /\ ~request.env.img_url => Puts = {}
    /\ request.form.file.kind # "file" => Puts = {}
    /\ (result.returned /\ ~result.success) => Puts = {}
    /\ fileId = <<>> => Puts = {}

\* an upload answered 200 after one write under the key of its src
C11_Witness ==
    /\ pc = "done" /\ resp.status = 200
    /\ Cardinality(Puts) = 1
    /\ \A i \in Puts : log[i].outcome = "ok"
                       /\ log[i].key = <<"a",".","p","n","g">>
    /\ resp.src = <<"/","f","i","l","e","/","a",".","p","n","g">>

\* a store is configured and the send failed: no write
C11_WitnessNoWrite ==
    /\ pc = "done" /\ IsUpload /\ request.env.img_url
    /\ result.returned /\ ~result.success
    /\ Puts = {}

---------------------------------------------------------------------------
(* The message of a terminal failure (C12)                                 *)

\* sendToTelegram has returned Failure
ChainFailed == result.returned /\ ~result.success

\* a wait follows the request at position i
WaitFollows(i) == i < Len(log) /\ log[i + 1].op = "sleep"

C12_WitnessUnparsable ==
    /\ ChainFailed
    /\ LastFetch.outcome = "non2xx-unparsable"
    /\ result.error = "Network error occurred"

---------------------------------------------------------------------------
(* The wait before a network retry (C13)                                   *)

\* positions of the waits in the log
Sleeps == {i \in DOMAIN log : log[i].op = "sleep"}

\* the number of send* requests made before position i
FetchesBefore(i) == Cardinality({j \in Fetches : j < i})

\* C13: an attempt that throws while retryCount < 2 is followed by a wait of
\* 1000 ms x (retryCount + 1), which is 1 s before the second request of the
\* chain and 2 s before the third, and then by the same request again (same
\* endpoint, chat id, field and content) with retryCount + 1; every wait
\* follows a thrown attempt, and no wait precedes a photo-to-document fallback.
C13_NetworkRetry ==
    /\ \A i \in Fetches :
        (log[i].outcome = "throw" /\ log[i].retryCount < 2) =>
            IF i = Len(log)
            THEN pc = "backoff" /\ retryCount = log[i].retryCount
            ELSE /\ log[i + 1].op = "sleep"
                 /\ log[i + 1].ms = 1000 * (log[i].retryCount + 1)
    /\ \A i \in Sleeps :
        /\ i > 1
        /\ log[i - 1].op = "fetch"
        /\ log[i - 1].outcome \in {"throw", "2xx-unparsable", "non2xx-unparsable"}
        /\ log[i].ms = 1000 * (log[i - 1].retryCount + 1)
        /\ FetchesBefore(i) = 1 => log[i].ms = 1000
        /\ FetchesBefore(i) = 2 => log[i].ms = 2000
        /\ FetchesBefore(i) \in {1, 2}
        /\ IF i = Len(log)
           THEN /\ pc = "send"
                /\ apiEndpoint = log[i - 1].endpoint
                /\ formData.chat_id = log[i - 1].chat_id
                /\ formData.field = log[i - 1].field
                /\ formData.file.content = log[i - 1].content
                /\ retryCount = log[i - 1].retryCount + 1
           ELSE /\ log[i + 1].op = "fetch"
                /\ log[i + 1].endpoint = log[i - 1].endpoint
                /\ log[i + 1].chat_id = log[i - 1].chat_id
                /\ log[i + 1].field = log[i - 1].field
                /\ log[i + 1].content = log[i - 1].content
                /\ log[i + 1].retryCount = log[i - 1].retryCount + 1
    /\ \A i \in Fetches :
        (i > 1 /\ log[i].endpoint = "sendDocument"
               /\ log[i - 1].op = "fetch" /\ log[i - 1].endpoint = "sendPhoto")
            => log[i - 1].outcome = "non2xx"
    /\ \A i \in Fetches :
        (i > 1 /\ log[i - 1].op = "sleep") => log[i].endpoint = log[i - 2].endpoint

\* two transport errors: a wait of 1 s, then of 2 s, the same request each time
C13_Witness ==
    /\ Len(log) = 5
    /\ log[1].op = "fetch" /\ log[1].outcome = "throw"
    /\ log[2].op = "sleep" /\ log[2].ms = 1000
    /\ log[3].op = "fetch" /\ log[3].outcome = "throw"
    /\ log[4].op = "sleep" /\ log[4].ms = 2000
    /\ log[5].op = "fetch" /\ log[5].endpoint = log[1].endpoint
    /\ log[5].content = log[1].content

\* a fallback without a wait, then a wait of 2 s before the third request
C13_WitnessFallback ==
    /\ Len(log) >= 4
    /\ log[1].op = "fetch" /\ log[1].endpoint = "sendPhoto" /\ log[1].outcome = "non2xx"
    /\ log[2].op = "fetch" /\ log[2].endpoint = "sendDocument" /\ log[2].outcome = "throw"
    /\ log[3].op = "sleep" /\ log[3].ms = 2000
    /\ log[4].op = "fetch" /\ log[4].endpoint = "sendDocument"

---------------------------------------------------------------------------
(* getFileId on every response shape (C14)                                 *)

\* the body of the 2xx response lacks all four fields, is not ok or has no
\* result
NothingToExtract ==
    LET d == result.data
    IN  \/ ~d.ok
        \/ ~d.hasResult
        \/ ~d.photo.has /\ ~d.document.has /\ ~d.video.has /\ ~d.audio.has

\* the file ids of the entries of a photo array
PhotoIds(arr) == {arr[i].file_id : i \in DOMAIN arr}

\* C14 as stated: on the body of a 2xx response getFileId looks at photo,
\* document, video, audio in that order and yields the first file id found;
\* when the body has none of the four (or is not ok, or has no result) the
\* request ends with status 500 and "Failed to get file ID"; and the
\* extraction fails in no other way: the only error a request can end with
\* after a successful send and before any store write is "Failed to get
\* file ID".
C14_Original ==
    (Extracted /\ result.success) =>
        LET d == result.data
        IN  /\ NothingToExtract => IsError("Failed to get file ID")
            /\ (pc = "done" /\ resp.kind = "error" /\ Puts = {})
                   => IsError("Failed to get file ID")
            /\ (pc # "done" /\ d.photo.has) => fileId \in PhotoIds(d.photo.v)
            /\ (pc # "done" /\ ~d.photo.has /\ d.document.has) => fileId = d.document.v
            /\ (pc # "done" /\ ~d.photo.has /\ ~d.document.has /\ d.video.has)
                   => fileId = d.video.v
            /\ (pc # "done" /\ ~d.photo.has /\ ~d.document.has /\ ~d.video.has)
                   => fileId = d.audio.v

\* the same statement with the empty photo array left out: it holds, so the
\* empty array is the only response shape on which the extraction fails
C14_ExceptEmptyPhoto ==
    (result.success /\ result.data.ok /\ result.data.hasResult
       /\ result.data.photo.has /\ result.data.photo.v = <<>>)
    \/ C14_Original

\* a 2xx body { ok: true, result: { photo: [] } }: the reduce throws
C14_EmptyPhoto ==
    /\ pc = "done" /\ result.success
    /\ result.data.ok /\ result.data.hasResult
    /\ result.data.photo.has /\ result.data.photo.v = <<>>
    /\ IsError("TypeError: Reduce of empty array with no initial value")

---------------------------------------------------------------------------
(* The order of the outbound calls of one upload (C15)                     *)

\* the place of an outbound call in the order send*, put, sendMessage
Rank(e) ==
    IF e.op \in {"fetch", "sleep"} THEN 1
    ELSE IF e.op = "put" THEN 2
    ELSE 3

\* C15: in one upload request the outbound calls come one after the other:
\* every send* attempt, then the put (when a store is configured), then the
\* sendMessage, then the response. A sendMessage is made only after the put
\* has succeeded; a put that fails ends the request with status 500 and
\* without a sendMessage, although a send* attempt was answered 2xx.
C15_StoreBeforeNotify ==
    IsUpload =>
        /\ \A i, j \in DOMAIN log : i < j => Rank(log[i]) <= Rank(log[j])
        /\ Cardinality(Puts) <= 1
        /\ Cardinality(Notifications) <= 1
        /\ Puts # {} =>
              /\ request.env.img_url
              /\ ChainEnded /\ result.success
              /\ \E i \in Fetches : log[i].outcome = "2xx"
        /\ Notifications # {} =>
              /\ ChainEnded /\ result.success
              /\ request.env.img_url => \E i \in Puts : log[i].outcome = "ok"
        /\ \A i \in Puts :
              log[i].outcome = "throw" =>
                  /\ Notifications = {}
                  /\ i = Len(log)
                  /\ pc = "done"
                  /\ resp.status = 500 /\ resp.kind = "error"
        /\ resp # NoResponse => pc = "done"
        /\ (pc = "done" /\ resp.kind = "src") =>
              /\ request.env.img_url => \E i \in Puts : log[i].outcome = "ok"
              /\ ~NotificationDisabled(request.env) => Notifications # {}

\* the file was accepted, the put failed: status 500 and no notification
C15_Witness ==
    /\ IsUpload /\ pc = "done"
    /\ \E i \in Fetches : log[i].outcome = "2xx"
    /\ \E i \in Puts : log[i].outcome = "throw"
    /\ Notifications = {}
    /\ resp.status = 500

\* the whole sequence: a send* attempt, the put, the sendMessage, the response
C15_WitnessOrder ==
    /\ IsUpload /\ pc = "done"
    /\ Len(log) = 3
    /\ log[1].op = "fetch" /\ log[2].op = "put" /\ log[2].outcome = "ok"
    /\ log[3].op = "sendMessage"
    /\ resp.status = 200

====
